---------------------------- MODULE Spec2Model ----------------------------
(***************************************************************************)
(* A model of plotpal/slices.py: the Colormesh family (field transform,    *)
(* colour limits, mesh coordinates, the lazily cached coordinates) and the *)
(* SlicePlotter (panel registration, grid grooming, the per-write loop run *)
(* by several worker processes inside a synchronisation scope).            *)
(*                                                                         *)
(* Arrays are sequences (1-based); a 2D array is a sequence of rows.       *)
(* Python's None is the empty sequence, a present optional value v is the  *)
(* one-element sequence <<v>>.  Real numbers are modelled by integers: the *)
(* inputs are drawn from values on which every mean the code takes is an   *)
(* integer, so that no rounding is modelled.                               *)
(***************************************************************************)
EXTENDS Integers, Sequences, FiniteSets, TLC

VARIABLES
    cm,        \* the attributes of one Colormesh object
    dset,      \* the dataset handed to that Colormesh
    op,        \* the method of the Colormesh called last
    arg,       \* the field (or write index) passed to it
    ret,       \* what that call returned or raised
    ncalls,    \* number of plot_colormesh calls made on cm
    ncoords,   \* number of _get_pcolormesh_coordinates calls made on cm
    plotter,   \* the attributes of the SlicePlotter objects (same script on every rank)
    reader,    \* the write assignment of the reader, per rank
    proc,      \* per rank: the position of the process in plot_colormeshes
    sync,      \* the two barriers of the synchronisation scope
    files      \* the images saved so far, in order, per rank

vars == <<cm, dset, op, arg, ret, ncalls, ncoords, plotter, reader, proc, sync, files>>

colormeshVars == <<cm, dset, op, arg, ret, ncalls, ncoords>>
plotterVars == <<plotter, reader, proc, sync, files>>

---------------------------------------------------------------------------
(* Bounds of the model *)

\* Largest number of elements of an exhaustively enumerated field.
MaxCells == 4
\* Field values are drawn from -MaxVal..MaxVal (times Unit).
MaxVal == 1
\* Long fields have OutlierLen .. OutlierLen + MaxExtra elements.
MaxExtra == 1
\* A long field holds at most MaxSpikes outliers.
MaxSpikes == 2
\* Magnitude of an outlier of a long field.
SpikeMag == 1000

---------------------------------------------------------------------------
(* Python / numpy helpers *)

None == <<>>
Some(v) == <<v>>

Abs(v) == IF v < 0 THEN -v ELSE v

Range(s) == {s[i] : i \in DOMAIN s}

MinOf(S) == CHOOSE m \in S : \A v \in S : m <= v

RECURSIVE Fact(_)
Fact(n) == IF n <= 1 THEN 1 ELSE n * Fact(n - 1)

\* Field values are multiples of Unit, so that the mean over any axis of an
\* enumerated field (at most MaxCells elements) is an integer.
Unit == Fact(MaxCells)

\* sum of s[lo..hi], by halving (numpy's pairwise summation)
RECURSIVE SumRange(_, _, _)
SumRange(s, lo, hi) ==
    IF lo > hi THEN 0
    ELSE IF lo = hi THEN s[lo]
    ELSE LET mid == (lo + hi) \div 2
         IN  SumRange(s, lo, mid) + SumRange(s, mid + 1, hi)

SeqSum(s) == SumRange(s, 1, Len(s))

\* np.mean of a 1D array whose sum its length divides
Mean(s) == SeqSum(s) \div Len(s)

\* field.flatten(): the rows one after the other
RECURSIVE flatten(_)
flatten(field) ==
    IF field = <<>> THEN <<>> ELSE Head(field) \o flatten(Tail(field))

Count(s, v) == Cardinality({i \in DOMAIN s : s[i] = v})

\* np.sort: the elements in ascending order, each as often as it occurs
RECURSIVE SortValues(_, _)
SortValues(s, S) ==
    IF S = {} THEN <<>>
    ELSE LET m == MinOf(S)
         IN  [i \in 1..Count(s, m) |-> m] \o SortValues(s, S \ {m})

sort(s) == SortValues(s, Range(s))

\* np.abs, elementwise
abs(s) == [i \in DOMAIN s |-> Abs(s[i])]

NRows(field) == Len(field)
NCols(field) == IF field = <<>> THEN 0 ELSE Len(field[1])
Shape(field) == <<NRows(field), NCols(field)>>

Column(field, j) == [i \in 1..NRows(field) |-> field[i][j]]

\* np.mean(field, axis=0): one mean per column, shape (n2,)
MeanAxis0(field) == [j \in 1..NCols(field) |-> Mean(Column(field, j))]

\* np.mean(field, axis=1): one mean per row, shape (n1,)
MeanAxis1(field) == [i \in 1..NRows(field) |-> Mean(field[i])]

Ok(v) == [status |-> "ok", value |-> v]
Raised(e) == [status |-> "raised", value |-> e]

\* field -= vec, for a 2D field and a 1D vec, under numpy's broadcasting: vec
\* is aligned with the LAST axis of field; a vec of length 1 is stretched;
\* any other length raises ValueError (operands could not be broadcast).
SubtractBroadcast1D(field, vec) ==
    IF Len(vec) = NCols(field)
    THEN Ok([i \in 1..NRows(field) |->
                [j \in 1..NCols(field) |-> field[i][j] - vec[j]]])
    ELSE IF Len(vec) = 1
    THEN Ok([i \in 1..NRows(field) |->
                [j \in 1..NCols(field) |-> field[i][j] - vec[1]]])
    ELSE Raised("ValueError")

\* field -= scalar
SubtractScalar(field, v) ==
    Ok([i \in 1..NRows(field) |-> [j \in 1..NCols(field) |-> field[i][j] - v]])

---------------------------------------------------------------------------
(* class Colormesh *)

KindCartesian == "Colormesh"
KindPolar == "PolarColormesh"
KindMollweide == "MollweideColormesh"
KindOrthographic == "OrthographicColormesh"
KindMeridional == "MeridionalColormesh"
Kinds == {KindCartesian, KindPolar, KindMollweide, KindOrthographic, KindMeridional}

\* the default basis names of each class's __init__
DefaultXBasis(kind) ==
    CASE kind = KindCartesian -> "x"
      [] kind = KindMeridional -> "theta"
      [] OTHER -> "phi"
DefaultYBasis(kind) ==
    CASE kind = KindCartesian -> "z"
      [] kind \in {KindPolar, KindMeridional} -> "r"
      [] OTHER -> "theta"

\* Colormesh.__init__ and the subclasses' __init__: the attributes of a new
\* object.  r_pad exists on Polar and Meridional panels, with r_inner and
\* r_outer defaulting to 0 and 1; left exists on Meridional panels.
\* divide_x_mean and log are kept at their default False: their results
\* (quotients, base-10 logarithms) are not integers.  vector_ind is kept at
\* its default None (scalar tasks).
Colormesh(kind, opts) ==
    [kind |-> kind,
     x_basis |-> DefaultXBasis(kind),
     y_basis |-> DefaultYBasis(kind),
     left |-> IF kind = KindMeridional THEN opts.left ELSE FALSE,
     r_pad |-> IF kind \in {KindPolar, KindMeridional}
               THEN <<IF opts.r_inner = None THEN 0 ELSE opts.r_inner[1],
                      IF opts.r_outer = None THEN 1 ELSE opts.r_outer[1]>>
               ELSE None,
     remove_mean |-> opts.remove_mean,
     remove_x_mean |-> opts.remove_x_mean,
     remove_y_mean |-> opts.remove_y_mean,
     divide_x_mean |-> FALSE,
     log |-> FALSE,
     pos_def |-> opts.pos_def,
     vmin |-> opts.vmin,
     vmax |-> opts.vmax,
     first |-> TRUE,
     xx |-> None,
     yy |-> None]

DefaultOpts ==
    [left |-> FALSE, r_inner |-> None, r_outer |-> None,
     remove_mean |-> FALSE, remove_x_mean |-> FALSE, remove_y_mean |-> FALSE,
     pos_def |-> FALSE, vmin |-> None, vmax |-> None]

\* Colormesh._modify_field (the base class): the if / elif / elif chain
base_modify_field(self, field) ==
    IF self.remove_mean
    THEN SubtractScalar(field, Mean(flatten(field)))
    ELSE IF self.remove_x_mean
    THEN SubtractBroadcast1D(field, MeanAxis0(field))
    ELSE IF self.remove_y_mean
    THEN SubtractBroadcast1D(field, MeanAxis1(field))
    ELSE Ok(field)

\* int(0.002*len(vals)) and int(0.998*len(vals)), 0-based indices
LowIndex(n) == (2 * n) \div 1000
HighIndexAsLast(n) == n - 1
HighIndex(n) == (998 * n) \div 1000

\* np.mean(vals) < 0, for len(vals) > 0: the sign of the mean is that of the sum
MeanNotPositive(vals) == SeqSum(vals) <= 0
MeanNegative(vals) == SeqSum(vals) < 0

\* vals[i] for a 0-based index i
At(vals, i) == vals[i + 1]

\* the bounds before the manual overrides (lines 93-103)
ComputedMinmax(self, field) ==
    LET vals == sort(flatten(field))
    IN  IF self.pos_def
        THEN LET vals2 == sort(vals)
             IN  IF MeanNegative(vals2)
                 THEN <<At(vals2, LowIndex(Len(vals2))), 0>>
                 ELSE <<0, At(vals2, HighIndex(Len(vals2)))>>
        ELSE LET vals2 == sort(abs(vals))
                 vmax == At(vals2, HighIndex(Len(vals2)))
             IN  <<-vmax, vmax>>

\* the manual overrides (lines 105-108)
ManualOverrideIgnored(self, mm) == mm
ManualOverride(self, mm) ==
    <<IF self.vmin # None THEN self.vmin[1] ELSE mm[1],
      IF self.vmax # None THEN self.vmax[1] ELSE mm[2]>>

\* Colormesh._get_minmax
_get_minmax(self, field) == ManualOverride(self, ComputedMinmax(self, field))

---------------------------------------------------------------------------
(* The fields the calls are tried on *)

Vals == (-MaxVal)..MaxVal
UnitVals == {Unit * v : v \in Vals}

Shapes == {s \in (1..MaxCells) \X (1..MaxCells) : s[1] * s[2] <= MaxCells}

FieldsOver(V, shapes) ==
    UNION {[1..s[1] -> [1..s[2] -> V]] : s \in shapes}

\* 1000 / 2: the length from which index int(0.002*N) is not 0, and above
\* which index int(0.998*N) is not the last
OutlierLen == 1000 \div 2

\* long fields: k outliers of value spike, the rest of value base
LongFields ==
    {<<[i \in 1..n |-> IF i <= k THEN spike ELSE base]>> :
        <<n, k, spike, base>> \in
            (OutlierLen..(OutlierLen + MaxExtra)) \X (0..MaxSpikes)
                \X {-SpikeMag, SpikeMag} \X Vals}

LimitFields == FieldsOver(Vals, {s \in Shapes : s[1] * s[2] < MaxCells}) \cup LongFields
TransformFields == FieldsOver(UnitVals, Shapes)

ManualValues == {None, Some(-1), Some(1)}

---------------------------------------------------------------------------
(* Specification SpecLimits: _get_minmax called on a Colormesh *)

IdlePlotter ==
    /\ plotter = None /\ reader = None /\ proc = None
    /\ sync = None /\ files = None

InitLimits ==
    /\ \E pd \in BOOLEAN, mn \in ManualValues, mx \in ManualValues :
          cm = Colormesh(KindCartesian,
                         [DefaultOpts EXCEPT !.pos_def = pd, !.vmin = mn, !.vmax = mx])
    /\ arg \in LimitFields
    /\ dset = None /\ op = "__init__" /\ ret = None
    /\ ncalls = 0 /\ ncoords = 0
    /\ IdlePlotter

\* vmin, vmax = cm._get_minmax(arg)
CallGetMinmax ==
    /\ op = "__init__"
    /\ ret' = Ok(_get_minmax(cm, arg))
    /\ op' = "_get_minmax"
    /\ UNCHANGED <<cm, dset, arg, ncalls, ncoords, plotterVars>>

NextLimits == CallGetMinmax

SpecLimits == InitLimits /\ [][NextLimits]_vars

---------------------------------------------------------------------------
(* Specification SpecTransform: _modify_field called on a Colormesh *)

InitTransform ==
    /\ \E rm \in BOOLEAN, rx \in BOOLEAN, ry \in BOOLEAN :
          cm = Colormesh(KindCartesian,
                         [DefaultOpts EXCEPT !.remove_mean = rm,
                                             !.remove_x_mean = rx,
                                             !.remove_y_mean = ry])
    /\ arg \in TransformFields
    /\ dset = None /\ op = "__init__" /\ ret = None
    /\ ncalls = 0 /\ ncoords = 0
    /\ IdlePlotter

\* field = cm._modify_field(arg)
CallModifyField ==
    /\ op = "__init__"
    /\ ret' = base_modify_field(cm, arg)
    /\ op' = "_modify_field"
    /\ UNCHANGED <<cm, dset, arg, ncalls, ncoords, plotterVars>>

NextTransform == CallModifyField

SpecTransform == InitTransform /\ [][NextTransform]_vars

---------------------------------------------------------------------------
(* Mesh coordinates, field padding and plot_colormesh *)

\* np.pi; angles are counted in units of pi/12
Pi == 12

\* match_basis(dset, basis): the 1D coordinate array of the named basis
match_basis(ds, basis) == ds.bases[basis]

\* np.meshgrid(a, b), default indexing 'xy': two arrays of shape
\* (len(b), len(a)), the first repeating a along each row, the second
\* holding b[i] all along row i
meshgrid(a, b) ==
    <<[i \in 1..Len(b) |-> [j \in 1..Len(a) |-> a[j]]],
      [i \in 1..Len(b) |-> [j \in 1..Len(a) |-> b[i]]]>>

\* np.pad(v, (1, 1), mode='constant', constant_values=(lo, hi))
pad_constant(v, values) == <<values[1]>> \o v \o <<values[2]>>

\* np.pad(field, ((0, after), (1, 0)), mode='edge'): one copy of the first
\* column in front of every row, then `after` copies of the last row below
pad_edge(field, after) ==
    LET cols == [i \in 1..NRows(field) |-> <<field[i][1]>> \o field[i]]
    IN  cols \o [k \in 1..after |-> cols[Len(cols)]]

\* _get_pcolormesh_coordinates of each class: the pair <<yy, xx>>
CartesianCoordinates(self, ds) ==
    LET x == match_basis(ds, self.x_basis)
        y == match_basis(ds, self.y_basis)
    IN  meshgrid(y, x)

PolarCoordinates(self, ds) ==
    LET x == match_basis(ds, self.x_basis)
        y == match_basis(ds, self.y_basis)
        phi == x \o <<2 * Pi>>
        r == pad_constant(y, self.r_pad)
    IN  meshgrid(r, phi)

MollweideCoordinates(self, ds) ==
    LET x == match_basis(ds, self.x_basis)
        y == match_basis(ds, self.y_basis)
        phi == [i \in DOMAIN x |-> x[i] - Pi]
        theta == [i \in DOMAIN y |-> Pi \div 2 - y[i]]
    IN  meshgrid(theta, phi)

OrthographicCoordinates(self, ds) ==
    LET x == match_basis(ds, self.x_basis)
        y == match_basis(ds, self.y_basis)
        phi == [i \in DOMAIN x |-> (x[i] * 180) \div Pi - 180]
        theta == [i \in DOMAIN y |-> (y[i] * 180) \div Pi - 90]
    IN  meshgrid(theta, phi)

MeridionalCoordinates(self, ds) ==
    LET x == match_basis(ds, self.x_basis)
        y == match_basis(ds, self.y_basis)
        padded == pad_constant(x, <<Pi, 0>>)
        theta == IF self.left
                 THEN [i \in DOMAIN padded |-> Pi \div 2 + padded[i]]
                 ELSE [i \in DOMAIN padded |-> Pi \div 2 - padded[i]]
        r == pad_constant(y, self.r_pad)
    IN  meshgrid(r, theta)

\* self._get_pcolormesh_coordinates(dset), dispatched on the class: self
\* with yy and xx stored
_get_pcolormesh_coordinates(self, ds) ==
    LET yx == CASE self.kind = KindCartesian -> CartesianCoordinates(self, ds)
                [] self.kind = KindPolar -> PolarCoordinates(self, ds)
                [] self.kind = KindMollweide -> MollweideCoordinates(self, ds)
                [] self.kind = KindOrthographic -> OrthographicCoordinates(self, ds)
                [] self.kind = KindMeridional -> MeridionalCoordinates(self, ds)
    IN  [self EXCEPT !.yy = yx[1], !.xx = yx[2]]

\* the rows each class's _modify_field appends to the field (lines 167, 248)
PadAfterRowsPolarToo(kind) == IF kind \in {KindPolar, KindMeridional} THEN 1 ELSE 0
PadAfterRows(kind) == IF kind = KindMeridional THEN 1 ELSE 0
PadsField(kind) == kind \in {KindPolar, KindMeridional}

\* self._modify_field(field), dispatched on the class: the base transform,
\* then (Polar, Meridional) the edge padding
_modify_field(self, field) ==
    LET base == base_modify_field(self, field)
    IN  IF base.status = "ok" /\ PadsField(self.kind)
        THEN Ok(pad_edge(base.value, PadAfterRows(self.kind)))
        ELSE base

\* ax.pcolormesh(xx, yy, field, vmin=, vmax=): the mesh is drawn when the
\* coordinates have the shape of the field (centres) or one more row and
\* one more column (corners); TypeError otherwise
pcolormesh(xx, yy, field, vmin, vmax) ==
    IF /\ Shape(xx) = Shape(yy)
       /\ \/ Shape(xx) = Shape(field)
          \/ Shape(xx) = <<NRows(field) + 1, NCols(field) + 1>>
    THEN Ok([xx |-> xx, yy |-> yy, field |-> field, vmin |-> vmin, vmax |-> vmax])
    ELSE Raised("TypeError")

\* the two ticks the colorbar gets (_setup_colorbar)
_setup_colorbar(plot, vmin, vmax) == [ticks |-> <<vmin, vmax>>]

\* whether the panel computes its coordinates in this call (line 135)
ComputesAlways(self) == TRUE
ComputesCoordinates(self) == self.first

\* the value of `first` a completed call leaves (line 148)
FirstAfterPlot == FALSE

\* self.plot_colormesh(ax, cax, dset, ni): <<self after the call, result>>
plot_colormesh(self, ds, ni) ==
    LET self1 == IF ComputesCoordinates(self)
                 THEN _get_pcolormesh_coordinates(self, ds) ELSE self
        field0 == ds.data[ni]            \* np.squeeze(dset[ni,:]), both axes longer than 1
        field == _modify_field(self1, field0)
    IN  IF field.status # "ok" THEN <<self1, field>>
        ELSE LET mm == _get_minmax(self1, field.value)
                 plot == pcolormesh(self1.xx, self1.yy, field.value, mm[1], mm[2])
             IN  IF plot.status # "ok" THEN <<self1, plot>>
                 ELSE <<[self1 EXCEPT !.first = FirstAfterPlot],
                        Ok([plot |-> plot.value,
                            cb |-> _setup_colorbar(plot.value, mm[1], mm[2])])>>

---------------------------------------------------------------------------
(* Specification SpecPanel: plot_colormesh called again and again on a panel *)

\* Largest length of a basis of the dataset (the shortest is 2).
MaxN == 3
\* Number of writes of the dataset.
MaxWrites == 3
\* Largest number of plot_colormesh calls followed on one panel.
MaxCalls == 3

PanelUnit == Fact(MaxN)

\* a coordinate array of n points
Ramp(n) == [i \in 1..n |-> i]

\* the dataset of a task: its two bases and one field per write
Dataset(xb, yb, nx, ny) ==
    [bases |-> (xb :> Ramp(nx)) @@ (yb :> Ramp(ny)),
     data |-> [ni \in 1..MaxWrites |->
                 [i \in 1..nx |-> [j \in 1..ny |->
                     PanelUnit * (((i * ni + j) % 3) - 1)]]]]

InitPanel ==
    /\ \E kind \in Kinds, left \in BOOLEAN, ry \in BOOLEAN, ro \in {None, Some(9)} :
          /\ left => kind = KindMeridional
          /\ ro # None => kind \in {KindPolar, KindMeridional}
          /\ cm = Colormesh(kind, [DefaultOpts EXCEPT !.left = left,
                                                      !.r_outer = ro,
                                                      !.remove_y_mean = ry])
    /\ \E nx \in 2..MaxN, ny \in 2..MaxN :
          dset = Dataset(cm.x_basis, cm.y_basis, nx, ny)
    /\ op = "__init__" /\ arg = None /\ ret = None
    /\ ncalls = 0 /\ ncoords = 0
    /\ IdlePlotter

\* plot, cb = cm.plot_colormesh(ax, cax, dset, ni); an exception is not
\* caught anywhere and ends the process
CallPlotColormesh ==
    /\ ncalls < MaxCalls
    /\ IF ret = None THEN TRUE ELSE ret.status = "ok"
    /\ \E ni \in 1..MaxWrites :
          LET r == plot_colormesh(cm, dset, ni)
          IN  /\ cm' = r[1]
              /\ ret' = r[2]
              /\ arg' = ni
    /\ op' = "plot_colormesh"
    /\ ncalls' = ncalls + 1
    /\ ncoords' = IF ComputesCoordinates(cm) THEN ncoords + 1 ELSE ncoords
    /\ UNCHANGED <<dset, plotterVars>>

NextPanel == CallPlotColormesh

SpecPanel == InitPanel /\ [][NextPanel]_vars

---------------------------------------------------------------------------
(* class SlicePlotter *)

\* Largest number of rows and of columns of the plot grid.
MaxGridDim == 2
\* Largest number of add_* calls of the script.
MaxAdds == 2
\* Number of worker processes of the parallel run.
NumRanks == 2
\* Largest start_fig passed to plot_colormeshes.
MaxStartFig == 2

\* RegularColorbarPlotGrid(nrows, ncols): one axes and one colorbar axes
\* under every key 'ax_{row}-{col}'; a key is the pair <<row, col>>
RegularColorbarPlotGrid(nrows, ncols) ==
    [nrows |-> nrows, ncols |-> ncols,
     keys |-> (0..(nrows - 1)) \X (0..(ncols - 1))]

\* SlicePlotter.__init__ (the same script runs on every rank)
SlicePlotter ==
    [grid |-> None, counter |-> 0, colormeshes |-> <<>>,
     nadds |-> 0,            \* number of add_* calls made (history)
     phase |-> "script", start_fig |-> 0]

\* one entry (self.counter, <kind>Colormesh(task, ...)) of self.colormeshes;
\* call is the number of add_* calls made before the one creating it
Entry(counter, kind, task, call) ==
    [k |-> counter, kind |-> kind, task |-> task, call |-> call]

\* the counter the second panel of add_meridional_colormesh and of
\* add_ball_shell_polar_colormesh is stored with (lines 331, 338)
CounterAdvanced(counter) == counter + 1
SecondPanelCounter(counter) == counter

\* the body shared by add_colormesh .. add_orthographic_colormesh
AppendOne(self, kind, task) ==
    [self EXCEPT
        !.colormeshes = Append(@, Entry(self.counter, kind, task, self.nadds)),
        !.counter = @ + 1,
        !.nadds = @ + 1]

\* the body shared by add_meridional_colormesh (left, right) and
\* add_ball_shell_polar_colormesh (ball, shell): a is the first argument, b
\* the second, each None or a task
AppendPair(self, kind, a, b) ==
    LET first == IF a # None
                 THEN <<Entry(self.counter, kind, a[1], self.nadds)>> ELSE <<>>
        second == IF b # None
                  THEN <<Entry(SecondPanelCounter(self.counter), kind, b[1], self.nadds)>>
                  ELSE <<>>
    IN  [self EXCEPT
            !.colormeshes = @ \o first \o second,
            !.counter = @ + 1,
            !.nadds = @ + 1]

\* _groom_grid: the keys in the order of the two loops, outer over the
\* columns i, inner over the rows j, the keys absent from grid.axes skipped
RECURSIVE GroomRows(_, _, _)
GroomRows(grid, i, j) ==
    IF j >= grid.nrows THEN <<>>
    ELSE (IF <<j, i>> \in grid.keys THEN <<(<<j, i>>)>> ELSE <<>>)
            \o GroomRows(grid, i, j + 1)

RECURSIVE GroomCols(_, _)
GroomCols(grid, i) ==
    IF i >= grid.ncols THEN <<>>
    ELSE GroomRows(grid, i, 0) \o GroomCols(grid, i + 1)

_groom_grid(self) == GroomCols(self.grid, 0)

\* the task list built at lines 366-369: each task once, in panel order
RECURSIVE TaskList(_, _)
TaskList(colormeshes, n) ==
    IF n = 0 THEN <<>>
    ELSE LET before == TaskList(colormeshes, n - 1)
             t == colormeshes[n].task
         IN  IF t \in Range(before) THEN before ELSE Append(before, t)

\* the digits of n >= 0, most significant first
RECURSIVE Digits(_)
Digits(n) == IF n < 10 THEN <<n>> ELSE Append(Digits(n \div 10), n % 10)

\* '{:06d}'.format(n) for n >= 0: the digits, zero-padded to six
Format06d(n) ==
    LET d == Digits(n)
    IN  IF Len(d) >= 6 THEN d ELSE [i \in 1..(6 - Len(d)) |-> 0] \o d

\* int(time_data['write_number'][ni]+start_fig-1)
FigNumberOffByOne(write_number, start_fig) == write_number + start_fig
FigNumber(write_number, start_fig) == write_number + start_fig - 1

\* the name savefig gets: '{out_dir}/{fig_name}_{:06d}.png', of which the
\* number is kept
FigName(write_number, start_fig) == Format06d(FigNumber(write_number, start_fig))

\* if self.reader.global_comm.rank == 0 (line 373)
EveryRankPrints(rank) == TRUE
PrintsProgress(rank) == rank = 0

\* where a process goes after line 370: an idle one returns from inside the
\* with block, the others enter the while loop
IdleEntersLoop(idle) == "loop"
AfterIdleCheck(idle) == IF idle THEN "exit" ELSE "loop"

---------------------------------------------------------------------------
(* The reader and the synchronisation scope *)

\* the even-write distribution: the writes 1..n cut into one contiguous
\* block per rank, in rank order; cuts[r] is the last write of rank r
Assignment(ranks, n, cuts) ==
    [r \in ranks |->
        LET lo == IF r = 0 THEN 0 ELSE cuts[r - 1]
        IN  [w \in 1..(cuts[r] - lo) |-> lo + w]]

Assignments(ranks, n) ==
    LET top == Cardinality(ranks) - 1
    IN  {Assignment(ranks, n, cuts) :
            cuts \in {c \in [ranks -> 0..n] :
                        /\ c[top] = n
                        /\ \A r \in ranks : r > 0 => c[r - 1] <= c[r]}}

\* self.idle: no write is assigned to the rank
Idle(r) == reader.writes[r] = <<>>

\* self.writes_remain(): a write of this rank is left
writes_remain(r) == proc[r].current_write < Len(reader.writes[r])

\* the write number (time_data['write_number'][ni]) of the write get_dsets
\* moves to
NextWrite(r) == reader.writes[r][proc[r].current_write + 1]

NoCalls == [writes_remain |-> 0, get_dsets |-> 0, plot_colormesh |-> 0, savefig |-> 0]

\* a process before it calls plot_colormeshes
NewProc ==
    [pc |-> "script", axs |-> <<>>, tasks |-> <<>>,
     current_write |-> 0, write_number |-> 0, k |-> 0,
     drawn |-> <<>>,        \* per position of axs: the panels drawn on ax and cax
     first |-> <<>>,        \* per panel: its `first` flag in this process
     printed |-> 0, raised |-> None,
     entered |-> 0, exited |-> 0, calls |-> NoCalls]

InitPlotter(ranks) ==
    /\ plotter = SlicePlotter
    /\ \E n \in 0..MaxWrites : \E a \in Assignments(ranks, n) :
          reader = [ranks |-> ranks, writes |-> a]
    /\ proc = [r \in ranks |-> NewProc]
    /\ sync = [enter |-> {}, exit |-> {}]
    /\ files = [r \in ranks |-> <<>>]
    /\ cm = None /\ dset = None /\ op = None /\ arg = None /\ ret = None
    /\ ncalls = 0 /\ ncoords = 0

Script(self) ==
    /\ plotter.phase = "script"
    /\ plotter' = self
    /\ UNCHANGED <<colormeshVars, reader, proc, sync, files>>

CanAdd == plotter.grid # None /\ plotter.nadds < MaxAdds

\* plotter.setup_grid(nrows, ncols)
SetupGrid(rows, cols) ==
    /\ plotter.grid = None
    /\ \E nrows \in rows, ncols \in cols :
          Script([plotter EXCEPT !.grid = RegularColorbarPlotGrid(nrows, ncols)])

setup_grid == SetupGrid(1..MaxGridDim, 1..MaxGridDim)

\* plotter.setup_grid(1, ncols): the panels side by side in one row
setup_grid_row == SetupGrid({1}, 1..MaxGridDim)

\* plotter.use_custom_grid(custom_grid): a square grid that lacks one of
\* the keys
use_custom_grid ==
    /\ plotter.grid = None
    /\ \E n \in 1..MaxGridDim :
          LET g == RegularColorbarPlotGrid(n, n)
          IN  \E missing \in g.keys :
                 Script([plotter EXCEPT !.grid = [g EXCEPT !.keys = @ \ {missing}]])

add_colormesh ==
    CanAdd /\ Script(AppendOne(plotter, KindCartesian, "b"))

add_cartesian_colormesh ==
    CanAdd /\ Script(AppendOne(plotter, KindCartesian, "b"))

add_polar_colormesh ==
    CanAdd /\ Script(AppendOne(plotter, KindPolar, "b"))

add_mollweide_colormesh ==
    CanAdd /\ Script(AppendOne(plotter, KindMollweide, "b"))

add_orthographic_colormesh ==
    CanAdd /\ Script(AppendOne(plotter, KindOrthographic, "b"))

add_meridional_colormesh ==
    /\ CanAdd
    /\ \E left \in {None, Some("b_left")}, right \in {None, Some("b")} :
          Script(AppendPair(plotter, KindMeridional, left, right))

add_ball_shell_polar_colormesh ==
    /\ CanAdd
    /\ \E ball \in {None, Some("b")}, shell \in {None, Some("b_shell")} :
          Script(AppendPair(plotter, KindPolar, ball, shell))

\* plotter.plot_colormeshes(start_fig=...) is called on every rank
call_plot_colormeshes ==
    /\ plotter.phase = "script"
    /\ plotter.grid # None
    /\ \E start_fig \in 1..MaxStartFig :
          plotter' = [plotter EXCEPT !.phase = "plot_colormeshes",
                                     !.start_fig = start_fig]
    /\ proc' = [r \in reader.ranks |->
                  [proc[r] EXCEPT !.pc = "start",
                                  !.first = [p \in 1..Len(plotter.colormeshes) |-> TRUE]]]
    /\ UNCHANGED <<colormeshVars, reader, sync, files>>

\* a step of rank r that touches only r's own state
Local(r, new) ==
    /\ proc' = [proc EXCEPT ![r] = new]
    /\ UNCHANGED <<colormeshVars, plotter, reader, sync, files>>

\* with self.my_sync: __enter__ arrives at the barrier ...
SyncEnter(r) ==
    /\ proc[r].pc = "start"
    /\ sync' = [sync EXCEPT !.enter = @ \cup {r}]
    /\ proc' = [proc EXCEPT ![r].pc = "enter_wait", ![r].entered = @ + 1]
    /\ UNCHANGED <<colormeshVars, plotter, reader, files>>

\* ... and leaves it once every rank has arrived
EnterPass(r) ==
    /\ proc[r].pc = "enter_wait"
    /\ sync.enter = reader.ranks
    /\ Local(r, [proc[r] EXCEPT !.pc = "groom"])

\* lines 365-370: groom the grid, list the tasks, return if idle
Groom(r) ==
    /\ proc[r].pc = "groom"
    /\ Local(r, [proc[r] EXCEPT
                    !.axs = _groom_grid(plotter),
                    !.drawn = [c \in 1..Len(_groom_grid(plotter)) |-> <<>>],
                    !.tasks = TaskList(plotter.colormeshes, Len(plotter.colormeshes)),
                    !.pc = AfterIdleCheck(Idle(r))])

\* line 372: while self.writes_remain()
WhileWritesRemain(r) ==
    /\ proc[r].pc = "loop"
    /\ Local(r, [proc[r] EXCEPT
                    !.calls.writes_remain = @ + 1,
                    !.pc = IF writes_remain(r) THEN "fetch" ELSE "exit"])

\* lines 373-377: the progress message of rank 0, get_dsets, time_data
\* (IndexError when no panel was added)
GetDsets(r) ==
    /\ proc[r].pc = "fetch"
    /\ LET p == [proc[r] EXCEPT
                    !.printed = IF PrintsProgress(r) THEN @ + 1 ELSE @,
                    !.calls.get_dsets = @ + 1,
                    !.write_number = NextWrite(r),
                    !.current_write = @ + 1]
       IN  IF plotter.colormeshes = <<>>
           THEN Local(r, [p EXCEPT !.raised = Some("IndexError"), !.pc = "exit"])
           ELSE Local(r, [p EXCEPT !.k = 1, !.pc = "plot"])

\* lines 379-382, one iteration: the k-th panel is drawn on axs[k], caxs[k]
\* of its counter (IndexError when the grid has no such cell)
PlotPanel(r) ==
    /\ proc[r].pc = "plot"
    /\ LET p == proc[r]
           entry == plotter.colormeshes[p.k]
       IN  IF entry.k >= Len(p.axs)
           THEN Local(r, [p EXCEPT !.raised = Some("IndexError"), !.pc = "exit"])
           ELSE Local(r, [p EXCEPT
                            !.drawn[entry.k + 1] = Append(@, p.k),
                            !.first[p.k] = FirstAfterPlot,
                            !.calls.plot_colormesh = @ + 1,
                            !.k = @ + 1,
                            !.pc = IF p.k = Len(plotter.colormeshes)
                                   THEN "save" ELSE "plot"])

\* lines 384-385: the title, then savefig of the figure as drawn
SaveFig(r) ==
    /\ proc[r].pc = "save"
    /\ files' = [files EXCEPT ![r] =
                    Append(@, [name |-> FigName(proc[r].write_number, plotter.start_fig),
                               write_number |-> proc[r].write_number,
                               image |-> proc[r].drawn])]
    /\ proc' = [proc EXCEPT ![r].calls.savefig = @ + 1, ![r].pc = "clear"]
    /\ UNCHANGED <<colormeshVars, plotter, reader, sync>>

\* lines 386-387: every ax and cax is cleared
ClearAxes(r) ==
    /\ proc[r].pc = "clear"
    /\ Local(r, [proc[r] EXCEPT
                    !.drawn = [c \in DOMAIN @ |-> <<>>],
                    !.pc = "loop"])

\* leaving the with block (return, end of loop or exception): __exit__
\* arrives at the barrier ...
SyncExit(r) ==
    /\ proc[r].pc = "exit"
    /\ sync' = [sync EXCEPT !.exit = @ \cup {r}]
    /\ proc' = [proc EXCEPT ![r].pc = "exit_wait", ![r].exited = @ + 1]
    /\ UNCHANGED <<colormeshVars, plotter, reader, files>>

\* ... and leaves it once every rank has arrived
ExitPass(r) ==
    /\ proc[r].pc = "exit_wait"
    /\ sync.exit = reader.ranks
    /\ Local(r, [proc[r] EXCEPT !.pc = "done"])

ProcStep(r) ==
    \/ SyncEnter(r)
    \/ EnterPass(r)
    \/ Groom(r)
    \/ WhileWritesRemain(r)
    \/ GetDsets(r)
    \/ PlotPanel(r)
    \/ SaveFig(r)
    \/ ClearAxes(r)
    \/ SyncExit(r)
    \/ ExitPass(r)

AllRanks == 0..(NumRanks - 1)

---------------------------------------------------------------------------
(* Specification SpecSetup: any script of add_* calls, one process *)

InitSetup == InitPlotter({0})

ScriptSetup ==
    \/ setup_grid
    \/ use_custom_grid
    \/ add_colormesh
    \/ add_cartesian_colormesh
    \/ add_polar_colormesh
    \/ add_mollweide_colormesh
    \/ add_orthographic_colormesh
    \/ add_meridional_colormesh
    \/ add_ball_shell_polar_colormesh
    \/ call_plot_colormeshes

NextSetup == ScriptSetup \/ ProcStep(0)

SpecSetup == InitSetup /\ [][NextSetup]_vars

---------------------------------------------------------------------------
(* Specification SpecRun: NumRanks processes; the script lays add_colormesh  *)
(* panels in one row                                                        *)

InitRun == InitPlotter(AllRanks)

ScriptRun ==
    \/ setup_grid_row
    \/ add_colormesh
    \/ call_plot_colormeshes

NextRun == ScriptRun \/ \E r \in AllRanks : ProcStep(r)

SpecRun == InitRun /\ [][NextRun]_vars

\* every process keeps running, and so does the script
FairSpecRun ==
    /\ SpecRun
    /\ WF_vars(ScriptRun)
    /\ \A r \in AllRanks : WF_vars(ProcStep(r))

---------------------------------------------------------------------------
(* Properties of _get_minmax (checked under SpecLimits) *)

\* v is the element at 0-based index idx of the ascending order of s
IsOrderStatistic(s, idx, v) ==
    /\ v \in Range(s)
    /\ Cardinality({i \in DOMAIN s : s[i] < v}) <= idx
    /\ Cardinality({i \in DOMAIN s : s[i] <= v}) > idx

NoManual == cm.vmin = None /\ cm.vmax = None
Returned(method) == op = method /\ ret # None /\ ret.status = "ok"
FlatArg == flatten(arg)
MaxOf(S) == CHOOSE m \in S : \A v \in S : v <= m

\* C1: with pos_def=False and no manual bound, vmax is the element at index
\* floor(0.998*N) of the ascending absolute values of the field and vmin = -vmax.
C1_SymmetricPercentile ==
    (Returned("_get_minmax") /\ ~cm.pos_def /\ NoManual) =>
        LET N == Len(FlatArg)
            vmin == ret.value[1]
            vmax == ret.value[2]
        IN  /\ IsOrderStatistic(abs(FlatArg), (998 * N) \div 1000, vmax)
            /\ vmin = -vmax

\* C1 witness: a signed field of more than 500 elements whose largest
\* absolute value is clipped by the percentile.
C1_Witness ==
    /\ Returned("_get_minmax") /\ ~cm.pos_def /\ NoManual
    /\ Len(FlatArg) > 500
    /\ ret.value[2] < MaxOf(Range(abs(FlatArg)))
    /\ ret.value[2] > 0

\* C2 as stated: with pos_def=True, mean >= 0 and no manual bound, vmin = 0
\* and vmax >= 0, for a field of any size.
C2_AsStated ==
    (Returned("_get_minmax") /\ cm.pos_def /\ NoManual /\ SeqSum(FlatArg) >= 0) =>
        (ret.value[1] = 0 /\ ret.value[2] >= 0)

\* C2 amended: with pos_def=True, mean >= 0 and no manual bound, vmin = 0 and
\* vmax is the element at index floor(0.998*N) of the ascending values; that
\* element is >= 0 when N <= 500 or when no element of the field is negative.
C2_PosDefUpper ==
    (Returned("_get_minmax") /\ cm.pos_def /\ NoManual /\ SeqSum(FlatArg) >= 0) =>
        LET N == Len(FlatArg)
            vmin == ret.value[1]
            vmax == ret.value[2]
        IN  /\ vmin = 0
            /\ IsOrderStatistic(FlatArg, (998 * N) \div 1000, vmax)
            /\ (N <= 500 \/ \A i \in DOMAIN FlatArg : FlatArg[i] >= 0) => vmax >= 0

\* C2 witness: a non-negative field of more than 500 elements, its outlier clipped.
C2_Witness ==
    /\ Returned("_get_minmax") /\ cm.pos_def /\ NoManual
    /\ SeqSum(FlatArg) >= 0
    /\ Len(FlatArg) > 500
    /\ \A i \in DOMAIN FlatArg : FlatArg[i] >= 0
    /\ ret.value[1] = 0
    /\ ret.value[2] > 0
    /\ ret.value[2] < MaxOf(Range(FlatArg))

\* C3 as stated: every returned pair satisfies vmin <= vmax.
C3_AsStated ==
    Returned("_get_minmax") => ret.value[1] <= ret.value[2]

OneSigned(s) ==
    \/ \A i \in DOMAIN s : s[i] >= 0
    \/ \A i \in DOMAIN s : s[i] <= 0

\* C3 amended: without manual bounds vmin <= vmax holds when pos_def is False,
\* and when pos_def is True for every field of fewer than 500 elements or
\* with no two elements of opposite sign; a manual vmin or vmax is returned
\* as given, whatever the other bound is.
C3_OrderedLimits ==
    Returned("_get_minmax") =>
        LET N == Len(FlatArg)
            vmin == ret.value[1]
            vmax == ret.value[2]
        IN  /\ (NoManual /\ (~cm.pos_def \/ N < 500 \/ OneSigned(FlatArg)))
                  => vmin <= vmax
            /\ cm.vmin # None => vmin = cm.vmin[1]
            /\ cm.vmax # None => vmax = cm.vmax[1]

\* C3 witness: a manual vmin above the computed vmax is returned unchanged.
C3_Witness ==
    /\ Returned("_get_minmax")
    /\ cm.vmin # None /\ cm.vmax = None
    /\ ret.value[1] = cm.vmin[1]
    /\ ret.value[1] > ret.value[2]

---------------------------------------------------------------------------
(* Properties of _modify_field (checked under SpecTransform) *)

OnlyOption(name) ==
    /\ cm.remove_mean = FALSE
    /\ cm.remove_x_mean = (name = "remove_x_mean")
    /\ cm.remove_y_mean = (name = "remove_y_mean")
    /\ ~cm.divide_x_mean /\ ~cm.log

\* C4: with remove_y_mean alone element [i][j] of the result is field[i][j]
\* minus the mean of row i (the mean along the second axis); with
\* remove_x_mean alone it is field[i][j] minus the mean of column j.
C4_AxisMeansRemoved ==
    op = "_modify_field" =>
        /\ OnlyOption("remove_y_mean") =>
              ret = Ok([i \in 1..NRows(arg) |-> [j \in 1..NCols(arg) |->
                          arg[i][j] - SeqSum(arg[i]) \div NCols(arg)]])
        /\ OnlyOption("remove_x_mean") =>
              ret = Ok([i \in 1..NRows(arg) |-> [j \in 1..NCols(arg) |->
                          arg[i][j] - SeqSum([k \in 1..NRows(arg) |-> arg[k][j]])
                                          \div NRows(arg)]])

---------------------------------------------------------------------------
(* Properties of the mesh coordinates and their cache (checked under SpecPanel) *)

PlottedField == ret.value.plot.field
BasisLengths ==
    <<Len(dset.bases[cm.x_basis]), Len(dset.bases[cm.y_basis])>>

\* C5 as stated: for every geometry the cached xx and yy have the shape of
\* the field returned by _modify_field.
C5_AsStated ==
    Returned("plot_colormesh") =>
        /\ Shape(cm.xx) = Shape(PlottedField)
        /\ Shape(cm.yy) = Shape(PlottedField)

\* C5 amended: Cartesian, Mollweide and Orthographic meshes have the shape
\* [n_x, n_y] of the field; the Polar mesh is [n_x+1, n_y+2] for a field
\* padded to [n_x, n_y+1] (one column at the start of the radial axis, no
\* row on the azimuth axis) and the Meridional mesh is [n_x+2, n_y+2] for a
\* field padded to [n_x+1, n_y+1]: one more row and one more column than
\* the field, which pcolormesh accepts as cell corners (no TypeError).
C5_MeshShapes ==
    op = "plot_colormesh" =>
        LET nx == BasisLengths[1]
            ny == BasisLengths[2]
        IN  /\ ret.status = "raised" => ret.value # "TypeError"
            /\ ret.status = "ok" =>
                  /\ Shape(cm.xx) = Shape(cm.yy)
                  /\ cm.kind \in {KindCartesian, KindMollweide, KindOrthographic} =>
                        /\ Shape(cm.xx) = <<nx, ny>>
                        /\ Shape(PlottedField) = <<nx, ny>>
                  /\ cm.kind = KindPolar =>
                        /\ Shape(cm.xx) = <<nx + 1, ny + 2>>
                        /\ Shape(PlottedField) = <<nx, ny + 1>>
                  /\ cm.kind = KindMeridional =>
                        /\ Shape(cm.xx) = <<nx + 2, ny + 2>>
                        /\ Shape(PlottedField) = <<nx + 1, ny + 1>>

\* C5 witness: a Polar panel drawn with a mesh one row and one column
\* larger than its padded field.
C5_Witness ==
    /\ Returned("plot_colormesh")
    /\ cm.kind = KindPolar
    /\ Shape(cm.xx) = <<NRows(PlottedField) + 1, NCols(PlottedField) + 1>>
    /\ NCols(PlottedField) = BasisLengths[2] + 1

\* one step of a panel, as C6 describes it
CoordinatesOnceStep ==
    /\ (cm.first /\ Returned("plot_colormesh")') =>
          /\ ~cm'.first
          /\ cm'.xx # None /\ cm'.yy # None
          /\ ncoords' = ncoords + 1
    /\ ~cm.first =>
          /\ ~cm'.first
          /\ cm'.xx = cm.xx /\ cm'.yy = cm.yy
          /\ ncoords' = ncoords

\* C6: a panel starts with first=True and xx=yy=None; the first call that
\* completes stores xx, yy and sets first=False; every later call leaves
\* first, xx and yy unchanged and does not call _get_pcolormesh_coordinates.
C6_CoordinatesOnce ==
    /\ cm.first /\ cm.xx = None /\ cm.yy = None /\ ncoords = 0
    /\ [][CoordinatesOnceStep]_vars

\* C6 witness: a second call completed on a panel whose coordinates were
\* computed once.
C6_Witness ==
    /\ Returned("plot_colormesh")
    /\ ncalls >= 2
    /\ ~cm.first /\ cm.xx # None
    /\ ncoords = 1

---------------------------------------------------------------------------
(* Properties of the panel-to-cell assignment (checked under SpecSetup) *)

\* the number of cells of the grid before `cell` in column-major order
ColumnMajorRank(cell) ==
    Cardinality({c \in plotter.grid.keys :
                    c[2] < cell[2] \/ (c[2] = cell[2] /\ c[1] < cell[1])})

\* the places <<c, n>> of the axes of rank r where panel i is drawn
PlacesOf(r, i) ==
    {pl \in {q \in (DOMAIN proc[r].drawn) \X (1..Len(plotter.colormeshes)) :
                q[2] \in DOMAIN proc[r].drawn[q[1]]} :
        proc[r].drawn[pl[1]][pl[2]] = i}

\* C7 as stated: the i-th panel inserted (0-based) is drawn on the i-th cell
\* of the column-major order, and no two panels are drawn on the same cell.
C7_AsStated ==
    \A r \in reader.ranks : \A c \in DOMAIN proc[r].drawn :
        LET d == proc[r].drawn[c]
        IN  /\ Len(d) <= 1
            /\ \A n \in DOMAIN d :
                  /\ d[n] - 1 = c - 1
                  /\ ColumnMajorRank(proc[r].axs[c]) = d[n] - 1

\* C7 amended: each panel is drawn on exactly one cell, the cell whose index
\* in the column-major order is the number of add_* calls made before the
\* call that created the panel; so panels of different calls get different
\* cells and the two panels of one add_meridional_colormesh or
\* add_ball_shell_polar_colormesh call share one.
C7_CellOfPanel ==
    \A r \in reader.ranks :
        /\ \A c \in DOMAIN proc[r].drawn : \A n \in DOMAIN proc[r].drawn[c] :
              LET cell == proc[r].axs[c]
                  entry == plotter.colormeshes[proc[r].drawn[c][n]]
              IN  /\ cell \in plotter.grid.keys
                  /\ ColumnMajorRank(cell) = entry.call
        /\ proc[r].pc = "save" =>
              \A i \in 1..Len(plotter.colormeshes) : Cardinality(PlacesOf(r, i)) = 1

\* C7 witness: a figure about to be saved in which one cell holds the two
\* panels of one call and another cell a panel of a later call.
C7_Witness ==
    \E r \in reader.ranks :
        /\ proc[r].pc = "save"
        /\ \E c1 \in DOMAIN proc[r].drawn, c2 \in DOMAIN proc[r].drawn :
              /\ c1 < c2
              /\ Len(proc[r].drawn[c1]) = 2
              /\ Len(proc[r].drawn[c2]) = 1

---------------------------------------------------------------------------
(* Properties of the write loop (checked under SpecRun and FairSpecRun) *)

\* the number a six-digit name spells
RECURSIVE Spelled(_)
Spelled(d) == IF d = <<>> THEN 0 ELSE 10 * Spelled(SubSeq(d, 1, Len(d) - 1)) + d[Len(d)]

AllPanelsOnce(image) ==
    \A i \in 1..Len(plotter.colormeshes) :
        Cardinality({c \in DOMAIN image : \E n \in DOMAIN image[c] : image[c][n] = i}) = 1

Completed(r) == proc[r].pc = "done" /\ proc[r].raised = None

\* C8: a non-idle process saves exactly one image per write for which
\* writes_remain() held, named by write_number + start_fig - 1 on six digits,
\* after every panel was plotted for the write and before the axes are
\* cleared; the writes 1..3 with start_fig=1 give 000001, 000002, 000003;
\* the loop ends when writes_remain() is false.
C8_OneImagePerWrite ==
    \A r \in reader.ranks :
        LET p == proc[r]
            w == reader.writes[r]
            f == files[r]
        IN  /\ Len(f) = p.calls.savefig
            /\ \A n \in DOMAIN f :
                  /\ n <= Len(w)
                  /\ Len(f[n].name) = 6
                  /\ Spelled(f[n].name) = w[n] + plotter.start_fig - 1
                  /\ AllPanelsOnce(f[n].image)
            /\ p.pc = "save" => Len(f) = p.current_write - 1 /\ AllPanelsOnce(p.drawn)
            /\ p.pc = "clear" => Len(f) = p.current_write /\ AllPanelsOnce(p.drawn)
            /\ p.pc = "loop" =>
                  /\ Len(f) = p.current_write
                  /\ \A c \in DOMAIN p.drawn : p.drawn[c] = <<>>
            /\ Completed(r) => Len(f) = Len(w) /\ p.current_write = Len(w)
            /\ (Completed(r) /\ w = <<1, 2, 3>> /\ plotter.start_fig = 1) =>
                  [n \in DOMAIN f |-> f[n].name] =
                      << <<0, 0, 0, 0, 0, 1>>, <<0, 0, 0, 0, 0, 2>>, <<0, 0, 0, 0, 0, 3>> >>

\* C8 witness: a process that went through its writes 1..3 with start_fig=1
\* and saved three images.
C8_Witness ==
    \E r \in reader.ranks :
        /\ Completed(r)
        /\ reader.writes[r] = <<1, 2, 3>>
        /\ plotter.start_fig = 1
        /\ Len(files[r]) = 3

\* C9 as stated: no process of rank other than 0 calls savefig.
C9_AsStated ==
    \A r \in reader.ranks : r # 0 => (files[r] = <<>> /\ proc[r].calls.savefig = 0)

\* C9 amended: every process, whatever its rank, saves the images of its own
\* writes and of no other; only the progress message is left to rank 0
\* alone, once per write of rank 0; no two processes save the same name.
C9_EachRankSavesItsWrites ==
    \A r \in reader.ranks :
        /\ proc[r].printed > 0 => r = 0
        /\ r = 0 => proc[r].printed = proc[r].calls.get_dsets
        /\ \A n \in DOMAIN files[r] : files[r][n].write_number = reader.writes[r][n]
        /\ Completed(r) => Len(files[r]) = Len(reader.writes[r])
        /\ \A q \in reader.ranks \ {r} :
              \A n \in DOMAIN files[r], m \in DOMAIN files[q] :
                  files[r][n].name # files[q][m].name

\* C9 witness: rank 1 has saved an image of one of its writes, and so has rank 0.
C9_Witness ==
    /\ 1 \in reader.ranks
    /\ files[1] # <<>>
    /\ files[0] # <<>>
    /\ Completed(0) /\ Completed(1)

ScopeOnce ==
    \A r \in reader.ranks :
        /\ proc[r].entered <= 1
        /\ proc[r].exited <= 1
        /\ proc[r].pc \notin {"script", "start"} => proc[r].entered = 1
        /\ proc[r].pc = "done" => proc[r].exited = 1
        /\ Idle(r) => (proc[r].calls = NoCalls /\ files[r] = <<>>)
        /\ (proc[r].pc = "exit" /\ ~Idle(r) /\ proc[r].raised = None) =>
              ~writes_remain(r)

AllDone == \A r \in reader.ranks : proc[r].pc = "done"

\* C10: every process, idle or not, enters and leaves the synchronisation
\* scope exactly once, so that every process gets through both barriers; an
\* idle process leaves without calling writes_remain, get_dsets,
\* plot_colormesh or savefig, the others leave once their writes are exhausted.
C10_ScopeEnteredAndLeftOnce == []ScopeOnce /\ <>[]AllDone

\* C10 witness: the run is over, with an idle process and one that saved images.
C10_Witness ==
    /\ AllDone
    /\ \E r \in reader.ranks : Idle(r) /\ proc[r].entered = 1 /\ proc[r].exited = 1
    /\ \E r \in reader.ranks : ~Idle(r) /\ files[r] # <<>>

===========================================================================
